---------------------------- MODULE Spec2Model ----------------------------
(***************************************************************************)
(* Model of LDAPProcessor.AD_parser: the RFC 2696 paged search loop        *)
(* (paged_search), the attribute normalisation (build_json) and the        *)
(* objectSid decoder (decode_sid), together with the calling script        *)
(* bin/build_output.py.                                                    *)
(*                                                                         *)
(* Byte strings (python str) are sequences of numbers in 0..255, unicode   *)
(* strings are sequences of code points.                                   *)
(***************************************************************************)
EXTENDS Integers, Sequences, FiniteSets, TLC

VARIABLES
    \* ---- the session object and paged_search ----
    pc,           \* position of the script in paged_search: idle, loop, returned, raised
    session,      \* the LDAP connection self.ldap: "bound" or "unbound"
    BIND_STATUS,  \* self.BIND_STATUS
    args,         \* the arguments paged_search was called with
    req_ctrl,     \* the request control object: (size, cookie)
    msgid,        \* the message id paged_search is waiting on
    all_results,  \* the accumulation list
    outcome,      \* what the caller of paged_search got
    stdout,       \* lines printed
    ldap_error,   \* the exception the ldap library raised, if any
    \* ---- the wire and the directory server ----
    requests,     \* every search_ext request sent, in order
    responses,    \* every result3 response consumed, in order
    outstanding,  \* message ids sent and not yet answered
    srv_total,    \* size of the result set the filter yields on the server
    srv_exact,    \* the server has so far delivered full pages, cookie iff more
    \* ---- build_json ----
    bj_pc,          \* position in build_json: idle, loop, done, raised
    search_results, \* the list build_json is given: (dn, attributes) pairs
    output_isdir,   \* os.path.isdir(output)
    bj_i,           \* number of entries the loop has taken
    out_file,       \* the JSON objects written to the output file, in order
    bj_error,       \* the exception build_json raised, if any
    clock,          \* the system clock, in whole seconds
    \* ---- decode_sid ----
    sid_pc,         \* position in decode_sid: call, returned, raised
    objectSids,     \* the argument of decode_sid
    processed_sids  \* what decode_sid returned or raised

search_vars == <<pc, session, BIND_STATUS, args, req_ctrl, msgid, all_results,
                 outcome, stdout, ldap_error, requests, responses, outstanding,
                 srv_total, srv_exact>>

norm_vars == <<bj_pc, search_results, output_isdir, bj_i, out_file, bj_error, clock>>

sid_vars == <<sid_pc, objectSids, processed_sids>>

vars == <<search_vars, norm_vars, sid_vars>>

----------------------------------------------------------------------------
(* Bounds *)

\* self.LDAP_PAGE_SIZE, scaled down from the source's 1000
LDAP_PAGE_SIZE == 2
\* largest result set a filter yields
MaxEntries == 5
\* largest number of responses the server answers with a non-empty cookie
\* before it ends the search
MaxRounds == 4
\* longest list of entries build_json is given
MaxUsers == 2
\* the clock at the call of build_json, and the seconds that may pass
StartTime == 1478000000
MaxTicks == 2
\* largest sub-authority count of the generated objectSid values
MaxSubAuthorities == 2

----------------------------------------------------------------------------
(* Values *)

Min(a, b) == IF a < b THEN a ELSE b

LDAP_BASE == "dc=example,dc=com"
LDAP_CONTROL_PAGE_OID == "1.2.840.113556.1.4.319"
OTHER_CONTROL_OID == "1.2.840.113556.1.4.474"
SCOPE_SUBTREE == "subtree"

\* python values a cookie can take: a byte string, or None
Bytes(v) == [kind |-> "bytes", val |-> v]
NoneCookie == [kind |-> "none"]
EmptyCookie == Bytes(<<>>)

\* python truth value of a cookie: `if cookie:`
Truthy(c) == c.kind = "bytes" /\ c.val # <<>>

\* arguments the script may pass to paged_search
FilterStrs == {"(objectClass=*)", "(objectClass=user)"}
AttrLists == {<<>>, <<"cn", "objectSid">>}
Timeouts == {-1, 30}

NotCalled == [filterstr |-> "", attrlist |-> <<>>, timeout |-> 0]

\* the request ldap.search_ext puts on the wire
SearchExt(id, base, a, ctrl) ==
    [msgid |-> id, base |-> base, scope |-> SCOPE_SUBTREE,
     filterstr |-> a.filterstr, attrlist |-> a.attrlist, timeout |-> a.timeout,
     size |-> ctrl.size, cookie |-> ctrl.cookie]

----------------------------------------------------------------------------
(* The directory server (RFC 2696).  The result set of the filter is the    *)
(* entries 1..srv_total; the cookie the server hands out names the position *)
(* the search resumes at.                                                   *)

CookieAt(p) == Bytes(<<p>>)
PosOf(c) == IF c.kind = "bytes" /\ c.val # <<>> THEN c.val[1] ELSE 0

Slice(start, n) == [i \in 1..n |-> start + i]

PageCtrl(c) == [controlType |-> LDAP_CONTROL_PAGE_OID, controlValue |-> <<0, c>>]
OtherCtrl == [controlType |-> OTHER_CONTROL_OID, controlValue |-> <<0, EmptyCookie>>]

\* what the server may answer to request req, as result3 returns it
ServerResponses(req) ==
    LET start == PosOf(req.cookie)
        left == srv_total - start
        sizes == 0..Min(req.size, left)
        more == IF Len(responses) + 1 < MaxRounds THEN sizes ELSE {}
        pres == {<<>>, <<OtherCtrl>>}
    IN  \* a page control whose cookie is empty or omitted: the search is over
        { [rdata |-> Slice(start, n), rctrls |-> pre \o <<PageCtrl(c)>>] :
            n \in sizes, c \in {EmptyCookie, NoneCookie}, pre \in pres }
        \cup
        \* a page control whose cookie names the position to resume at
        { [rdata |-> Slice(start, n), rctrls |-> pre \o <<PageCtrl(CookieAt(start + n))>>] :
            n \in more, pre \in pres }
        \cup
        \* the server ignores the paging control
        { [rdata |-> Slice(start, n), rctrls |-> pre] : n \in 0..left, pre \in pres }

\* the answer of a server that fills every page and sends a cookie exactly
\* while entries remain
ExactResponse(req, resp) ==
    LET start == PosOf(req.cookie)
        n == Min(req.size, srv_total - start)
    IN  /\ resp.rdata = Slice(start, n)
        /\ \E i \in 1..Len(resp.rctrls) :
              /\ resp.rctrls[i].controlType = LDAP_CONTROL_PAGE_OID
              /\ resp.rctrls[i].controlValue[2] =
                    IF start + n < srv_total THEN CookieAt(start + n) ELSE EmptyCookie

----------------------------------------------------------------------------
(* Python library functions used by build_json and decode_sid *)

\* a raised exception, and the test for it
Raise(exc) == [t |-> "raise", exc |-> exc]
Raised(v) == v.t = "raise"
\* a unicode object, and a list
Unicode(cps) == [t |-> "unicode", v |-> cps]
List(items) == [t |-> "list", v |-> items]

\* struct.unpack('>Q', bytes)[0]: big-endian unsigned
RECURSIVE UnpackBE(_)
UnpackBE(bytes) ==
    IF bytes = <<>> THEN 0
    ELSE UnpackBE(SubSeq(bytes, 1, Len(bytes) - 1)) * 256 + bytes[Len(bytes)]

\* struct.unpack('<L', bytes)[0]: little-endian unsigned
RECURSIVE UnpackLE(_)
UnpackLE(bytes) ==
    IF bytes = <<>> THEN 0 ELSE bytes[1] + 256 * UnpackLE(Tail(bytes))

\* unicode(n) for a non-negative integer: its decimal digits
RECURSIVE Decimal(_)
Decimal(n) ==
    IF n < 10 THEN <<48 + n>> ELSE Decimal(n \div 10) \o <<48 + (n % 10)>>

\* one lower-case hexadecimal digit, two for a byte
HexDigit(d) == IF d < 10 THEN 48 + d ELSE 87 + d
HexByte(b) == <<HexDigit(b \div 16), HexDigit(b % 16)>>

RECURSIVE HexBytes(_)
HexBytes(bytes) ==
    IF bytes = <<>> THEN <<>> ELSE HexByte(Head(bytes)) \o HexBytes(Tail(bytes))

\* unicode(uuid.UUID(bytes=b)): ValueError unless b has 16 bytes, else the
\* 8-4-4-4-12 hexadecimal form of the bytes in order
UuidFromBytes(b) ==
    IF Len(b) # 16 THEN Raise("ValueError")
    ELSE Unicode(HexBytes(SubSeq(b, 1, 4)) \o <<45>> \o
                 HexBytes(SubSeq(b, 5, 6)) \o <<45>> \o
                 HexBytes(SubSeq(b, 7, 8)) \o <<45>> \o
                 HexBytes(SubSeq(b, 9, 10)) \o <<45>> \o
                 HexBytes(SubSeq(b, 11, 16)))

\* b is a continuation byte 10xxxxxx
IsCont(b) == b >= 128 /\ b <= 191

\* s.decode('utf-8'): the code points, or UnicodeDecodeError
RECURSIVE Utf8Decode(_)
Utf8Decode(s) ==
    IF s = <<>> THEN Unicode(<<>>)
    ELSE
      LET b == s[1]
          n == IF b < 128 THEN 1
               ELSE IF b >= 194 /\ b <= 223 THEN 2
               ELSE IF b >= 224 /\ b <= 239 THEN 3
               ELSE IF b >= 240 /\ b <= 244 THEN 4
               ELSE 0
          ok == /\ n > 0
                /\ Len(s) >= n
                /\ \A i \in 2..n : IsCont(s[i])
                /\ b = 224 => s[2] >= 160
                /\ b = 240 => s[2] >= 144
                /\ b = 244 => s[2] <= 143
          cp == IF n = 1 THEN b
                ELSE IF n = 2 THEN (b - 192) * 64 + (s[2] - 128)
                ELSE IF n = 3 THEN (b - 224) * 4096 + (s[2] - 128) * 64 + (s[3] - 128)
                ELSE (b - 240) * 262144 + (s[2] - 128) * 4096
                     + (s[3] - 128) * 64 + (s[4] - 128)
      IN  IF ~ok THEN Raise("UnicodeDecodeError")
          ELSE LET rest == Utf8Decode(SubSeq(s, n + 1, Len(s)))
               IN  IF Raised(rest) THEN rest ELSE Unicode(<<cp>> \o rest.v)

\* unicode(s) for a byte string: the ascii codec
AsciiDecode(s) ==
    IF \E i \in 1..Len(s) : s[i] >= 128 THEN Raise("UnicodeDecodeError")
    ELSE Unicode(s)

\* s.split(','): the pieces between the separators
RECURSIVE Split(_, _)
Split(s, sep) ==
    IF \A i \in 1..Len(s) : s[i] # sep THEN <<s>>
    ELSE LET k == CHOOSE i \in 1..Len(s) :
                     s[i] = sep /\ \A j \in 1..(i - 1) : s[j] # sep
         IN  <<SubSeq(s, 1, k - 1)>> \o Split(SubSeq(s, k + 1, Len(s)), sep)

\* x.strip(): leading and trailing whitespace removed
IsSpace(b) == b \in {9, 10, 11, 12, 13, 32}
Strip(s) ==
    IF \A i \in 1..Len(s) : IsSpace(s[i]) THEN <<>>
    ELSE LET lo == CHOOSE i \in 1..Len(s) :
                      ~IsSpace(s[i]) /\ \A j \in 1..(i - 1) : IsSpace(s[j])
             hi == CHOOSE i \in 1..Len(s) :
                      ~IsSpace(s[i]) /\ \A j \in (i + 1)..Len(s) : IsSpace(s[j])
         IN  SubSeq(s, lo, hi)

\* repr(s) of a byte string: quoted, with escapes
ReprByte(b, quote) ==
    IF b = 92 THEN <<92, 92>>
    ELSE IF b = quote THEN <<92, quote>>
    ELSE IF b = 9 THEN <<92, 116>>
    ELSE IF b = 10 THEN <<92, 110>>
    ELSE IF b = 13 THEN <<92, 114>>
    ELSE IF b < 32 \/ b >= 127 THEN <<92, 120>> \o HexByte(b)
    ELSE <<b>>

RECURSIVE ReprBody(_, _)
ReprBody(s, quote) ==
    IF s = <<>> THEN <<>> ELSE ReprByte(Head(s), quote) \o ReprBody(Tail(s), quote)

ReprStr(s) ==
    LET quote == IF (\E i \in 1..Len(s) : s[i] = 39) /\ (\A i \in 1..Len(s) : s[i] # 34)
                 THEN 34 ELSE 39
    IN  <<quote>> \o ReprBody(s, quote) \o <<quote>>

\* unicode(values) of a list of byte strings: "[" repr, ", " repr ... "]"
RECURSIVE ReprItems(_)
ReprItems(values) ==
    IF values = <<>> THEN <<>>
    ELSE IF Len(values) = 1 THEN ReprStr(values[1])
    ELSE ReprStr(values[1]) \o <<44, 32>> \o ReprItems(Tail(values))

UnicodeOfList(values) == Unicode(<<91>> \o ReprItems(values) \o <<93>>)

----------------------------------------------------------------------------
(* paged_search *)

\* pctrls = [c for c in rctrls if c.controlType == ldap.LDAP_CONTROL_PAGE_OID]
PageControls(rctrls) ==
    SelectSeq(rctrls, LAMBDA c : c.controlType = LDAP_CONTROL_PAGE_OID)

\* mutant of Extend: the page replaces the accumulated list
Extend_replace(acc, rdata) == rdata

\* all_results.extend(rdata)
Extend(acc, rdata) == acc \o rdata

PendingRequest == requests[Len(requests)]

\* rtype, rdata, rmsgid, rctrls = self.ldap.result3(msgid)
Result3(resp) ==
    /\ msgid \in outstanding
    /\ resp \in ServerResponses(PendingRequest)
    /\ responses' = Append(responses,
          [msgid |-> msgid, rdata |-> resp.rdata,
           pctrls |-> PageControls(resp.rctrls)])
    /\ srv_exact' = (srv_exact /\ ExactResponse(PendingRequest, resp))

\* lines 293-300: build the request control, send the first request
PagedSearch ==
    \E f \in FilterStrs, a \in AttrLists, t \in Timeouts :
        LET ctrl == [size |-> LDAP_PAGE_SIZE, cookie |-> EmptyCookie]
            called == [filterstr |-> f, attrlist |-> a, timeout |-> t]
        IN  /\ pc = "idle"
            /\ session = "bound"
            /\ args' = called
            /\ req_ctrl' = ctrl
            /\ msgid' = 1
            /\ requests' = Append(requests, SearchExt(1, LDAP_BASE, called, ctrl))
            /\ outstanding' = outstanding \cup {1}
            /\ all_results' = <<>>
            /\ pc' = "loop"
            /\ UNCHANGED <<norm_vars, sid_vars, session, BIND_STATUS, outcome, stdout, ldap_error,
                           responses, srv_total, srv_exact>>

\* lines 293-298: the first search_ext raises ldap.LDAPError
PagedSearchSendError ==
    \E f \in FilterStrs, a \in AttrLists, t \in Timeouts :
        /\ pc = "idle"
        /\ session = "bound"
        /\ args' = [filterstr |-> f, attrlist |-> a, timeout |-> t]
        /\ req_ctrl' = [size |-> LDAP_PAGE_SIZE, cookie |-> EmptyCookie]
        /\ ldap_error' = "LDAPError"
        /\ pc' = "raised"
        /\ outcome' = [kind |-> "raised"]
        /\ UNCHANGED <<norm_vars, sid_vars, session, BIND_STATUS, msgid, all_results, stdout,
                       requests, responses, outstanding, srv_total, srv_exact>>

\* mutant of RoundContinue: the loop stops at the first page although the
\* cookie is non-empty
RoundContinue_stop ==
    /\ pc = "loop"
    /\ \E resp \in ServerResponses(PendingRequest) :
        LET pctrls == PageControls(resp.rctrls) IN
        /\ Result3(resp)
        /\ pctrls # <<>>
        /\ Truthy(pctrls[1].controlValue[2])
        /\ all_results' = Extend(all_results, resp.rdata)
        /\ outstanding' = outstanding \ {msgid}
        /\ pc' = "returned"
        /\ outcome' = [kind |-> "returned", value |-> all_results']
        /\ UNCHANGED <<norm_vars, sid_vars, session, BIND_STATUS, args, req_ctrl, msgid, stdout,
                       ldap_error, requests, srv_total>>

\* mutant of RoundContinue: the cookie is not copied into the request control
RoundContinue_stale ==
    /\ pc = "loop"
    /\ \E resp \in ServerResponses(PendingRequest) :
        LET pctrls == PageControls(resp.rctrls) IN
        /\ Result3(resp)
        /\ pctrls # <<>>
        /\ Truthy(pctrls[1].controlValue[2])
        /\ all_results' = Extend(all_results, resp.rdata)
        /\ req_ctrl' = req_ctrl
        /\ msgid' = msgid + 1
        /\ requests' = Append(requests, SearchExt(msgid', LDAP_BASE, args, req_ctrl'))
        /\ outstanding' = (outstanding \ {msgid}) \cup {msgid'}
        /\ UNCHANGED <<norm_vars, sid_vars, pc, session, BIND_STATUS, args, outcome, stdout, ldap_error,
                       srv_total>>

\* lines 303-318: the response carries a page control with a non-empty cookie;
\* the cookie is copied into the request control and the search continues
RoundContinue ==
    /\ pc = "loop"
    /\ \E resp \in ServerResponses(PendingRequest) :
        LET pctrls == PageControls(resp.rctrls) IN
        /\ Result3(resp)
        /\ pctrls # <<>>
        /\ Truthy(pctrls[1].controlValue[2])
        /\ all_results' = Extend(all_results, resp.rdata)
        /\ req_ctrl' = [size |-> LDAP_PAGE_SIZE, cookie |-> pctrls[1].controlValue[2]]
        /\ msgid' = msgid + 1
        /\ requests' = Append(requests, SearchExt(msgid', LDAP_BASE, args, req_ctrl'))
        /\ outstanding' = (outstanding \ {msgid}) \cup {msgid'}
        /\ UNCHANGED <<norm_vars, sid_vars, pc, session, BIND_STATUS, args, outcome, stdout, ldap_error,
                       srv_total>>

\* lines 303-318: as RoundContinue, but the continuation search_ext raises
RoundSendError ==
    /\ pc = "loop"
    /\ \E resp \in ServerResponses(PendingRequest) :
        LET pctrls == PageControls(resp.rctrls) IN
        /\ Result3(resp)
        /\ pctrls # <<>>
        /\ Truthy(pctrls[1].controlValue[2])
        /\ all_results' = Extend(all_results, resp.rdata)
        /\ req_ctrl' = [size |-> LDAP_PAGE_SIZE, cookie |-> pctrls[1].controlValue[2]]
        /\ outstanding' = outstanding \ {msgid}
        /\ ldap_error' = "LDAPError"
        /\ pc' = "raised"
        /\ outcome' = [kind |-> "raised"]
        /\ UNCHANGED <<norm_vars, sid_vars, session, BIND_STATUS, args, msgid, stdout, requests, srv_total>>

\* mutant of RoundExhausted: the warning is printed on an empty cookie too
RoundExhausted_warn ==
    /\ pc = "loop"
    /\ \E resp \in ServerResponses(PendingRequest) :
        LET pctrls == PageControls(resp.rctrls) IN
        /\ Result3(resp)
        /\ pctrls # <<>>
        /\ ~Truthy(pctrls[1].controlValue[2])
        /\ all_results' = Extend(all_results, resp.rdata)
        /\ outstanding' = outstanding \ {msgid}
        /\ stdout' = Append(stdout, "Warning: Server ignores RFC 2696 control.")
        /\ pc' = "returned"
        /\ outcome' = [kind |-> "returned", value |-> all_results']
        /\ UNCHANGED <<norm_vars, sid_vars, session, BIND_STATUS, args, req_ctrl, msgid, ldap_error,
                       requests, srv_total>>

\* mutant of RoundExhausted: the search is continued with the empty cookie
RoundExhausted_retry ==
    /\ pc = "loop"
    /\ Len(responses) < MaxRounds
    /\ \E resp \in ServerResponses(PendingRequest) :
        LET pctrls == PageControls(resp.rctrls) IN
        /\ Result3(resp)
        /\ pctrls # <<>>
        /\ ~Truthy(pctrls[1].controlValue[2])
        /\ all_results' = Extend(all_results, resp.rdata)
        /\ req_ctrl' = [size |-> LDAP_PAGE_SIZE, cookie |-> pctrls[1].controlValue[2]]
        /\ msgid' = msgid + 1
        /\ requests' = Append(requests, SearchExt(msgid', LDAP_BASE, args, req_ctrl'))
        /\ outstanding' = (outstanding \ {msgid}) \cup {msgid'}
        /\ UNCHANGED <<norm_vars, sid_vars, pc, session, BIND_STATUS, args, outcome, stdout, ldap_error,
                       srv_total>>

\* lines 303-311, 319-320, 325: page control present, cookie empty or None
RoundExhausted ==
    /\ pc = "loop"
    /\ \E resp \in ServerResponses(PendingRequest) :
        LET pctrls == PageControls(resp.rctrls) IN
        /\ Result3(resp)
        /\ pctrls # <<>>
        /\ ~Truthy(pctrls[1].controlValue[2])
        /\ all_results' = Extend(all_results, resp.rdata)
        /\ outstanding' = outstanding \ {msgid}
        /\ pc' = "returned"
        /\ outcome' = [kind |-> "returned", value |-> all_results']
        /\ UNCHANGED <<norm_vars, sid_vars, session, BIND_STATUS, args, req_ctrl, msgid, stdout,
                       ldap_error, requests, srv_total>>

\* lines 303-309, 321-325: no page control among the response controls
RoundNoControl ==
    /\ pc = "loop"
    /\ \E resp \in ServerResponses(PendingRequest) :
        /\ Result3(resp)
        /\ PageControls(resp.rctrls) = <<>>
        /\ all_results' = Extend(all_results, resp.rdata)
        /\ outstanding' = outstanding \ {msgid}
        /\ stdout' = Append(stdout, "Warning: Server ignores RFC 2696 control.")
        /\ pc' = "returned"
        /\ outcome' = [kind |-> "returned", value |-> all_results']
        /\ UNCHANGED <<norm_vars, sid_vars, session, BIND_STATUS, args, req_ctrl, msgid, ldap_error,
                       requests, srv_total>>

\* mutant of RoundError: the error is caught and the entries accumulated so
\* far are returned
RoundError_partial ==
    /\ pc = "loop"
    /\ msgid \in outstanding
    /\ outstanding' = outstanding \ {msgid}
    /\ ldap_error' = "LDAPError"
    /\ pc' = "returned"
    /\ outcome' = [kind |-> "returned", value |-> all_results]
    /\ UNCHANGED <<norm_vars, sid_vars, session, BIND_STATUS, args, req_ctrl, msgid, all_results,
                   stdout, requests, responses, srv_total, srv_exact>>

\* line 303: result3 raises (size limit exceeded, timeout, server down);
\* nothing in paged_search catches it
RoundError ==
    /\ pc = "loop"
    /\ msgid \in outstanding
    /\ outstanding' = outstanding \ {msgid}
    /\ ldap_error' = "LDAPError"
    /\ pc' = "raised"
    /\ outcome' = [kind |-> "raised"]
    /\ UNCHANGED <<norm_vars, sid_vars, session, BIND_STATUS, args, req_ctrl, msgid, all_results,
                   stdout, requests, responses, srv_total, srv_exact>>

\* disconnect(), called by the script once paged_search has returned
disconnect ==
    /\ pc = "returned"
    /\ session = "bound"
    /\ session' = "unbound"
    /\ UNCHANGED <<norm_vars, sid_vars, pc, BIND_STATUS, args, req_ctrl, msgid, all_results, outcome,
                   stdout, ldap_error, requests, responses, outstanding, srv_total, srv_exact>>

----------------------------------------------------------------------------
(* The state after AD_parser.__init__: connected and bound *)

\* build_json is not running
NormIdle ==
    /\ bj_pc = "off"
    /\ search_results = <<>>
    /\ output_isdir = FALSE
    /\ bj_i = 0
    /\ out_file = <<>>
    /\ bj_error = "none"
    /\ clock = 0

\* decode_sid is not running
SidIdle ==
    /\ sid_pc = "off"
    /\ objectSids = <<>>
    /\ processed_sids = List(<<>>)

SessionBound ==
    /\ session = "bound"
    /\ BIND_STATUS = TRUE
    /\ args = NotCalled
    /\ req_ctrl = [size |-> 0, cookie |-> EmptyCookie]
    /\ msgid = 0
    /\ all_results = <<>>
    /\ outcome = [kind |-> "pending"]
    /\ stdout = <<>>
    /\ ldap_error = "none"
    /\ requests = <<>>
    /\ responses = <<>>
    /\ outstanding = {}
    /\ srv_exact = TRUE

Init ==
    /\ pc = "idle"
    /\ SessionBound
    /\ srv_total \in 0..MaxEntries
    /\ NormIdle
    /\ SidIdle

Next ==
    \/ PagedSearch
    \/ PagedSearchSendError
    \/ RoundContinue
    \/ RoundSendError
    \/ RoundExhausted
    \/ RoundNoControl
    \/ RoundError
    \/ disconnect

Spec == Init /\ [][Next]_vars

\* the script is one blocking thread: a step that can be taken is taken
LiveSpec == Spec /\ WF_vars(Next)

----------------------------------------------------------------------------
(* decode_sid *)

\* mutant of Machine: the 4-byte group is read big-endian
Machine_be(binary, i) == UnpackBE(SubSeq(binary, 4 * i + 1, 4 * (i + 1)))

\* struct.unpack('<L', binary[4*i:4*(i+1)])[0]
Machine(binary, i) == UnpackLE(SubSeq(binary, 4 * i + 1, 4 * (i + 1)))

\* lines 266-268: value += u'-' + machine, for i in xrange(length)
RECURSIVE Machines(_, _, _)
Machines(binary, i, length) ==
    IF i >= length THEN <<>>
    ELSE <<45>> \o Decimal(Machine(binary, i)) \o Machines(binary, i + 1, length)

\* lines 257-268: the loop body for one objectSid
DecodeOneSid(objectSid) ==
    IF Len(objectSid) < 1 THEN Raise("struct.error")
    ELSE LET version == objectSid[1] IN
    IF version # 1 THEN Raise("AssertionError")
    ELSE IF Len(objectSid) < 2 THEN Raise("struct.error")
    ELSE LET length == objectSid[2]
             authbytes == SubSeq(objectSid, 3, Min(8, Len(objectSid)))
             binary == SubSeq(objectSid, 9, Len(objectSid))
         IN  IF Len(authbytes) # 6 THEN Raise("struct.error")
             ELSE IF Len(binary) # 4 * length THEN Raise("AssertionError")
             ELSE Unicode(<<83, 45>> \o Decimal(version) \o <<45>>
                          \o Decimal(UnpackBE(<<0, 0>> \o authbytes))
                          \o Machines(binary, 0, length))

\* lines 255-271: one string per objectSid, in order; the first exception
\* leaves the function
RECURSIVE decode_sid(_)
decode_sid(sids) ==
    IF sids = <<>> THEN List(<<>>)
    ELSE LET first == DecodeOneSid(Head(sids)) IN
         IF Raised(first) THEN first
         ELSE LET rest == decode_sid(Tail(sids)) IN
              IF Raised(rest) THEN rest ELSE List(<<first.v>> \o rest.v)

----------------------------------------------------------------------------
(* build_json *)

SOURCE == "dc01.example.com"
SOURCE_TYPE == "ad"
SOURCE_VALUE == "op"

\* lines 208-211: objectGUID
RECURSIVE GuidValue(_)
GuidValue(values) ==
    IF values = <<>> THEN List(<<>>)
    ELSE LET first == UuidFromBytes(Head(values)) IN
         IF Raised(first) THEN first
         ELSE LET rest == GuidValue(Tail(values)) IN
              IF Raised(rest) THEN rest ELSE List(<<first.v>> \o rest.v)

\* lines 220-223: unicode(mail), and mail.decode('utf-8') when that fails
MailPiece(mail) ==
    IF Raised(AsciiDecode(mail)) THEN Utf8Decode(mail) ELSE AsciiDecode(mail)

\* lines 217-223 for the pieces of one raw value
RECURSIVE MailPieces(_)
MailPieces(pieces) ==
    IF pieces = <<>> THEN List(<<>>)
    ELSE LET first == MailPiece(Strip(Head(pieces))) IN
         IF Raised(first) THEN first
         ELSE LET rest == MailPieces(Tail(pieces)) IN
              IF Raised(rest) THEN rest ELSE List(<<first.v>> \o rest.v)

\* lines 214-223: mail
RECURSIVE MailValue(_)
MailValue(values) ==
    IF values = <<>> THEN List(<<>>)
    ELSE LET first == MailPieces(Split(Head(values), 44)) IN
         IF Raised(first) THEN first
         ELSE LET rest == MailValue(Tail(values)) IN
              IF Raised(rest) THEN rest ELSE List(first.v \o rest.v)

\* mutant of OtherValue: an attribute with one value is stored as that string
OtherValue_single(values) ==
    IF \E i \in 1..Len(values) : Raised(Utf8Decode(values[i]))
    THEN UnicodeOfList(values)
    ELSE IF Len(values) = 1 THEN Utf8Decode(values[1])
    ELSE List([i \in 1..Len(values) |-> Utf8Decode(values[i]).v])

\* lines 224-231: any other attribute
OtherValue(values) ==
    IF \E i \in 1..Len(values) : Raised(Utf8Decode(values[i]))
    THEN UnicodeOfList(values)
    ELSE List([i \in 1..Len(values) |-> Utf8Decode(values[i]).v])

\* lines 206-231: the value stored for one attribute
AttrValue(key, values) ==
    IF key = "objectGUID" THEN GuidValue(values)
    ELSE IF key = "objectSid" THEN decode_sid(values)
    ELSE IF key = "mail" THEN MailValue(values)
    ELSE OtherValue(values)

\* line 198: unicode(time.mktime(time.localtime()))
CurrentTime(now) == Unicode(Decimal(now) \o <<46, 48>>)

ProvenanceKeys == {"extractTime", "datasource", "datasource_type", "datasource_value"}

\* lines 197-233: json_output for one user, read at time now
JsonOutput(user, now) ==
    [key \in ProvenanceKeys \cup DOMAIN user[2] |->
        IF key \in DOMAIN user[2] THEN AttrValue(key, user[2][key])
        ELSE IF key = "extractTime" THEN CurrentTime(now)
        ELSE IF key = "datasource" THEN SOURCE
        ELSE IF key = "datasource_type" THEN SOURCE_TYPE
        ELSE SOURCE_VALUE]

\* the exceptions the attributes of user raise
Faults(user) ==
    { AttrValue(key, user[2][key]).exc :
        key \in { k \in DOMAIN user[2] : Raised(AttrValue(k, user[2][k])) } }

\* lines 183-194: the output path is a file; it is created and truncated
BuildJsonOpen ==
    /\ bj_pc = "idle"
    /\ ~output_isdir
    /\ out_file' = <<>>
    /\ bj_i' = 0
    /\ bj_pc' = "loop"
    /\ UNCHANGED <<search_vars, sid_vars, search_results, output_isdir, bj_error, clock>>

\* lines 183-185: the output path is a directory
BuildJsonIsDir ==
    /\ bj_pc = "idle"
    /\ output_isdir
    /\ bj_error' = "ValueError"
    /\ bj_pc' = "raised"
    /\ UNCHANGED <<search_vars, sid_vars, search_results, output_isdir, bj_i, out_file, clock>>

\* lines 196-237: one user is converted and written
BuildJsonUser ==
    /\ bj_pc = "loop"
    /\ bj_i < Len(search_results)
    /\ Faults(search_results[bj_i + 1]) = {}
    /\ out_file' = Append(out_file, JsonOutput(search_results[bj_i + 1], clock))
    /\ bj_i' = bj_i + 1
    /\ UNCHANGED <<search_vars, sid_vars, bj_pc, search_results, output_isdir, bj_error, clock>>

\* lines 196-233: converting an attribute of the user raises; nothing in
\* build_json catches it
BuildJsonUserRaise ==
    /\ bj_pc = "loop"
    /\ bj_i < Len(search_results)
    /\ \E exc \in Faults(search_results[bj_i + 1]) :
          /\ bj_error' = exc
          /\ bj_pc' = "raised"
    /\ UNCHANGED <<search_vars, sid_vars, search_results, output_isdir, bj_i, out_file, clock>>

\* line 238: the list is exhausted, the file is closed
BuildJsonClose ==
    /\ bj_pc = "loop"
    /\ bj_i = Len(search_results)
    /\ bj_pc' = "done"
    /\ UNCHANGED <<search_vars, sid_vars, search_results, output_isdir, bj_i, out_file,
                   bj_error, clock>>

\* a second passes while build_json runs
Tick ==
    /\ bj_pc \in {"idle", "loop"}
    /\ clock < StartTime + MaxTicks
    /\ clock' = clock + 1
    /\ UNCHANGED <<search_vars, sid_vars, bj_pc, search_results, output_isdir, bj_i,
                   out_file, bj_error>>

\* raw byte strings of the entries
GoodSid == <<1, 4, 0, 0, 0, 0, 0, 5, 21, 0, 0, 0, 100, 0, 0, 0, 200, 0, 0, 0, 233, 3, 0, 0>>
SidRevision2 == <<2, 1, 0, 0, 0, 0, 0, 5, 32, 0, 0, 0>>
SidShortBody == <<1, 5, 0, 0, 0, 0, 0, 5, 21, 0, 0, 0, 100, 0, 0, 0, 200, 0, 0, 0, 233, 3, 0, 0>>
GoodGuid == <<18, 52, 86, 120, 154, 188, 222, 240, 1, 2, 3, 4, 5, 6, 7, 255>>
ShortGuid == SubSeq(GoodGuid, 1, 15)

\* the (dn, attributes) pairs a search may have returned
RawEntries ==
    { <<"CN=alice", [objectGUID |-> <<GoodGuid>>, objectSid |-> <<GoodSid>>,
                     mail |-> <<<<97, 64, 120, 46, 99, 111, 109, 44, 32, 98, 64, 120, 46, 99, 111, 109>>>>, cn |-> <<<<97, 108, 105, 99, 101>>>>,
                     memberOf |-> <<<<103, 49>>, <<103, 50>>>>]>>,
      <<"CN=bob", [objectSid |-> <<SidRevision2>>, cn |-> <<<<98, 111, 98>>>>]>>,
      <<"CN=eve", [objectSid |-> <<GoodSid, SidShortBody>>, cn |-> <<<<101, 118, 101>>>>]>>,
      <<"CN=dan", [objectGUID |-> <<ShortGuid>>, cn |-> <<<<100, 97, 110>>>>]>>,
      <<"CN=finn", [mail |-> <<<<255, 64, 120>>>>, cn |-> <<<<102, 105, 110, 110>>>>]>>,
      <<"CN=carol", [cn |-> <<<<99, 97, 114, 111, 108>>>>, description |-> <<<<255, 254>>>>,
                     memberOf |-> <<<<103, 49>>, <<255>>>>]>>,
      <<"CN=ake", [mail |-> <<<<195, 165, 107, 101, 64, 120, 46, 99, 111, 109>>>>, cn |-> <<<<195, 133, 107, 101>>>>, memberOf |-> <<>>]>>,
      <<"CN=gus", [cn |-> <<<<103, 117, 115>>>>]>> }

RECURSIVE ListsUpTo(_, _)
ListsUpTo(S, n) ==
    IF n = 0 THEN {<<>>}
    ELSE LET shorter == ListsUpTo(S, n - 1)
         IN  shorter \cup { Append(l, x) : l \in { m \in shorter : Len(m) = n - 1 }, x \in S }

NormInit ==
    /\ pc = "returned"
    /\ SessionBound
    /\ srv_total = 0
    /\ SidIdle
    /\ bj_pc = "idle"
    /\ search_results \in ListsUpTo(RawEntries, MaxUsers)
    /\ output_isdir \in BOOLEAN
    /\ bj_i = 0
    /\ out_file = <<>>
    /\ bj_error = "none"
    /\ clock = StartTime

NormNext ==
    \/ BuildJsonOpen
    \/ BuildJsonIsDir
    \/ BuildJsonUser
    \/ BuildJsonUserRaise
    \/ BuildJsonClose
    \/ Tick

NormSpec == NormInit /\ [][NormNext]_vars

----------------------------------------------------------------------------
(* decode_sid on its own *)

\* raw values decode_sid is given
AuthorityBytes == {<<0, 0, 0, 0, 0, 5>>, <<0, 0, 0, 1, 0, 0>>, <<0, 0, 1, 2, 3, 4>>}
Groups == {<<21, 0, 0, 0>>, <<233, 3, 0, 0>>, <<0, 0, 0, 1>>, <<4, 3, 2, 1>>}

RECURSIVE Flatten(_)
Flatten(seqs) == IF seqs = <<>> THEN <<>> ELSE Head(seqs) \o Flatten(Tail(seqs))

WellFormedSids ==
    { <<1, n>> \o a \o Flatten(gs) :
        <<n, a, gs>> \in UNION { {n} \X AuthorityBytes \X [1..n -> Groups] :
                                 n \in 0..MaxSubAuthorities } }

MalformedSids ==
    { SidRevision2, SidShortBody, <<>>, <<1>>, <<1, 0, 0, 0>>, GoodSid \o <<7>> }

PairSids ==
    { GoodSid, SidRevision2, <<1, 0, 0, 0, 0, 1, 0, 0>>,
      <<1, 1, 0, 0, 1, 2, 3, 4, 4, 3, 2, 1>> }

decode_sid_return ==
    /\ sid_pc = "call"
    /\ ~Raised(decode_sid(objectSids))
    /\ processed_sids' = decode_sid(objectSids)
    /\ sid_pc' = "returned"
    /\ UNCHANGED <<search_vars, norm_vars, objectSids>>

decode_sid_raise ==
    /\ sid_pc = "call"
    /\ Raised(decode_sid(objectSids))
    /\ processed_sids' = decode_sid(objectSids)
    /\ sid_pc' = "raised"
    /\ UNCHANGED <<search_vars, norm_vars, objectSids>>

SidInit ==
    /\ pc = "returned"
    /\ SessionBound
    /\ srv_total = 0
    /\ NormIdle
    /\ sid_pc = "call"
    /\ objectSids \in {<<>>}
                       \cup { <<x>> : x \in WellFormedSids \cup MalformedSids \cup {GoodSid} }
                       \cup { <<x, y>> : x \in PairSids, y \in PairSids }
    /\ processed_sids = List(<<>>)

SidNext ==
    \/ decode_sid_return
    \/ decode_sid_raise

SidSpec == SidInit /\ [][SidNext]_vars

----------------------------------------------------------------------------
(* Properties of paged_search *)

RECURSIVE Concat(_)
Concat(pages) ==
    IF pages = <<>> THEN <<>> ELSE Head(pages) \o Concat(Tail(pages))

\* the entries of the responses consumed so far, in arrival order
Arrived == Concat([i \in 1..Len(responses) |-> responses[i].rdata])

LastResponse == responses[Len(responses)]

CookieEmptyOrOmitted(c) == c = NoneCookie \/ c = EmptyCookie

\* the result set has k*pageSize + r entries, k >= 1, r > 0
SeveralPagesWithRest ==
    srv_total > LDAP_PAGE_SIZE /\ srv_total % LDAP_PAGE_SIZE # 0

\* C1: when the server delivers a result set of k*pageSize + r entries
\* (k >= 1, r > 0) as full pages with a non-empty cookie on every page but
\* the last, paged_search returns the concatenation of the pages in arrival
\* order, which is the whole result set: nothing twice, nothing left out.
C1_ReturnsEveryPageInOrder ==
    (pc = "returned" /\ srv_exact /\ SeveralPagesWithRest) =>
        /\ outcome.kind = "returned"
        /\ outcome.value = Arrived
        /\ outcome.value = [i \in 1..srv_total |-> i]

C1_Witness ==
    /\ pc = "returned"
    /\ srv_exact
    /\ srv_total = 2 * LDAP_PAGE_SIZE + 1
    /\ Len(responses) = 3
    /\ Len(outcome.value) = srv_total

\* C2: against a server that fills every page, paged_search makes exactly one
\* round trip when the filter yields at most pageSize entries (0 and exactly
\* pageSize included) and exactly k+1 when it yields k*pageSize + r entries,
\* k >= 1, r > 0.
C2_RoundTrips ==
    (pc = "returned" /\ srv_exact) =>
        /\ Len(requests) = Len(responses)
        /\ srv_total <= LDAP_PAGE_SIZE => Len(responses) = 1
        /\ SeveralPagesWithRest =>
              Len(responses) = (srv_total \div LDAP_PAGE_SIZE) + 1

C2_Witness ==
    /\ pc = "returned"
    /\ srv_exact
    /\ srv_total = LDAP_PAGE_SIZE + 1
    /\ Len(requests) = 2
    /\ Len(responses) = 2

\* C3: a protocol error raised in any round, the first or a later one, reaches
\* the caller: paged_search returns no list, partial or not, and leaves the
\* session bound and BIND_STATUS as it was.
C3_ErrorAbortsSearch ==
    ldap_error # "none" =>
        /\ pc = "raised"
        /\ outcome = [kind |-> "raised"]
        /\ session = "bound"
        /\ BIND_STATUS = TRUE

C3_Witness ==
    /\ ldap_error # "none"
    /\ pc = "raised"
    /\ Len(responses) >= 1
    /\ Len(all_results) > 0

\* C4: the paging-unsupported warning is printed exactly when a response
\* carries no page control; that response is the last one, no request follows
\* it, no error is raised, and everything accumulated up to and including it
\* is returned.  A page control with an empty cookie prints nothing.
C4_WarningOnlyWithoutControl ==
    /\ stdout # <<>> <=> (responses # <<>> /\ LastResponse.pctrls = <<>>)
    /\ Len(stdout) <= 1
    /\ \A i \in 1..Len(responses) :
          responses[i].pctrls = <<>> =>
              /\ i = Len(responses)
              /\ Len(requests) = i
              /\ outstanding = {}
              /\ ldap_error = "none"
              /\ pc = "returned"
              /\ outcome = [kind |-> "returned", value |-> Arrived]

C4_Witness ==
    /\ stdout # <<>>
    /\ Len(responses) = 2
    /\ LastResponse.pctrls = <<>>
    /\ Len(outcome.value) > LDAP_PAGE_SIZE

\* C5: a response whose page control has an empty or omitted cookie ends the
\* search in that very step: no request is sent for it or after it; and a
\* search that has started ends, by returning or by raising, once the server
\* stops handing out cookies.
C5_StopsOnEmptyCookie ==
    /\ [][(/\ Len(responses') > Len(responses)
           /\ responses'[Len(responses')].pctrls # <<>>
           /\ CookieEmptyOrOmitted(responses'[Len(responses')].pctrls[1].controlValue[2]))
          => (requests' = requests /\ outstanding' = {} /\ pc' = "returned")]_vars
    /\ [][pc = "returned" => (requests' = requests /\ pc' = "returned")]_vars
    /\ (pc = "loop") ~> (pc \in {"returned", "raised"})

C5_Witness ==
    /\ pc = "returned"
    /\ Len(responses) >= 2
    /\ LastResponse.pctrls # <<>>
    /\ LastResponse.pctrls[1].controlValue[2] = NoneCookie
    /\ Len(requests) = Len(responses)

\* C10: rounds are sequential and chained: at most one request is outstanding;
\* the first request carries the empty cookie; every later request was sent
\* after the response to the one before it was consumed, that response carried
\* a non-empty cookie, the request carries exactly that cookie, and it has the
\* base DN, scope, filter, attribute list, timeout and page size of the first.
C10_SequentialChainedRounds ==
    /\ Cardinality(outstanding) <= 1
    /\ Len(responses) <= Len(requests)
    /\ Len(requests) <= Len(responses) + 1
    /\ \A i \in 1..Len(responses) : responses[i].msgid = requests[i].msgid
    /\ requests # <<>> =>
          requests[1] = [msgid |-> 1, base |-> LDAP_BASE, scope |-> SCOPE_SUBTREE,
                         filterstr |-> args.filterstr, attrlist |-> args.attrlist,
                         timeout |-> args.timeout, size |-> LDAP_PAGE_SIZE,
                         cookie |-> EmptyCookie]
    /\ \A i \in 2..Len(requests) :
          /\ responses[i-1].pctrls # <<>>
          /\ ~CookieEmptyOrOmitted(responses[i-1].pctrls[1].controlValue[2])
          /\ requests[i].cookie = responses[i-1].pctrls[1].controlValue[2]
          /\ requests[i].msgid # requests[i-1].msgid
          /\ [requests[i] EXCEPT !.cookie = EmptyCookie, !.msgid = 1] = requests[1]

C10_Witness ==
    /\ Len(requests) = 3
    /\ Len(responses) = 2
    /\ Cardinality(outstanding) = 1
    /\ requests[3].cookie # requests[2].cookie

----------------------------------------------------------------------------
(* Properties of build_json *)

SpecialKeys == {"objectGUID", "objectSid", "mail"}

AllValidText(values) == \A j \in 1..Len(values) : ~Raised(Utf8Decode(values[j]))

TextOf(values) == [j \in 1..Len(values) |-> Utf8Decode(values[j]).v]

\* C6: a decode failure of one attribute value never aborts build_json: a run
\* given an output file raises nothing and, when it has ended, has written
\* exactly one record for every entry of its input.
C6_DecodeFaultNeverAborts ==
    ~output_isdir =>
        /\ bj_error = "none"
        /\ bj_pc # "raised"
        /\ bj_pc = "done" => Len(out_file) = Len(search_results)

C8_SameProvenanceInEveryRecord ==
    \A i, j \in 1..Len(out_file) :
        \A key \in ProvenanceKeys : out_file[i][key] = out_file[j][key]

----------------------------------------------------------------------------
(* Properties of decode_sid *)

\* a value of the documented layout: revision 1, count N, 6 authority bytes,
\* then exactly 4*N bytes
WellFormedSid(sid) == Len(sid) >= 8 /\ sid[1] = 1 /\ Len(sid) = 8 + 4 * sid[2]

\* byte b at weight 256^k
Weighted(b, k) == IF b = 0 THEN 0 ELSE b * 256^k

\* the six authority bytes, most significant first
AuthorityOf(sid) ==
    Weighted(sid[3], 5) + Weighted(sid[4], 4) + Weighted(sid[5], 3)
    + Weighted(sid[6], 2) + Weighted(sid[7], 1) + Weighted(sid[8], 0)

\* the i-th 4-byte group, least significant byte first
SubAuthorityOf(sid, i) ==
    LET at == 8 + 4 * (i - 1)
    IN  Weighted(sid[at + 1], 0) + Weighted(sid[at + 2], 1)
        + Weighted(sid[at + 3], 2) + Weighted(sid[at + 4], 3)

RECURSIVE Dashed(_, _)
Dashed(sid, i) ==
    IF i > sid[2] THEN <<>>
    ELSE <<45>> \o Decimal(SubAuthorityOf(sid, i)) \o Dashed(sid, i + 1)

\* "S-1-<authority>-<sub_1>-...-<sub_N>"
ExpectedSid(sid) == <<83, 45, 49, 45>> \o Decimal(AuthorityOf(sid)) \o Dashed(sid, 1)

\* C9: for well-formed SID values decode_sid returns, one string per value in
\* input order, "S-1-<authority>-<sub_1>-...-<sub_N>" with the authority the
\* six bytes read big-endian and sub_i the i-th 4-byte group read
\* little-endian; (1, 5, [21, 100, 200, 1001]) gives "S-1-5-21-100-200-1001".
C9_WellFormedSidDecodes ==
    /\ (sid_pc \in {"returned", "raised"}
        /\ \A i \in 1..Len(objectSids) : WellFormedSid(objectSids[i]))
       => /\ sid_pc = "returned"
          /\ processed_sids = List([i \in 1..Len(objectSids) |-> ExpectedSid(objectSids[i])])
    /\ (sid_pc = "returned" /\ objectSids = <<GoodSid>>)
       => processed_sids = List(<<<<83, 45, 49, 45, 53, 45, 50, 49, 45, 49, 48, 48, 45, 50, 48, 48, 45, 49, 48, 48, 49>>>>)

C9_Witness ==
    /\ sid_pc = "returned"
    /\ Len(objectSids) = 2
    /\ objectSids[1] = GoodSid
    /\ objectSids[2] = <<1, 1, 0, 0, 1, 2, 3, 4, 4, 3, 2, 1>>
    /\ Len(processed_sids.v) = 2

====
